---- MODULE Spec2Model ----
(***************************************************************************)
(* Fancy QR renderer (fastapi_service/main.py): the /qr handler create_qr, *)
(* the renderer draw_qr with its drawing steps on an RGBA raster, and the  *)
(* helpers parse_hex_rgba and clamp.                                       *)
(*                                                                         *)
(* Numbers.  The float-valued request fields (finder_round_ratio,          *)
(* dot_margin, hole_percentage) are drawn from the dyadic fractions k/Den. *)
(* On these every product the code forms is exact in IEEE double, so       *)
(* int(...) of the code is the integer division written here.              *)
(*                                                                         *)
(* Raster.  img[y][x] is the RGBA colour of pixel (x, y).  The Pillow      *)
(* primitives are modelled by what they paint: rectangle and ellipse take  *)
(* a bounding box that INCLUDES both end points; a disc paints the pixels  *)
(* whose centre lies within the circle inscribed in its bounding box.      *)
(***************************************************************************)
EXTENDS Integers, Sequences, FiniteSets, TLC

VARIABLES
    req,        \* the QRRequest being served
    clock,      \* the server's clock (datetime.utcnow)
    pc,         \* position in create_qr / draw_qr
    m,          \* draw_qr's matrix (<<>> before generate_matrix)
    locals,     \* draw_qr's locals N, B, SIZE, S, ..., DARK, LIGHT, as assigned
    img,        \* draw_qr's canvas (<<>> before Image.new)
    drawn,      \* the drawing steps that have painted on img, in order
    error,      \* the exception in flight or caught ("" when none)
    response,   \* what create_qr answered (status 0: nothing yet)
    calls,      \* number of create_qr calls started for req
    prev,       \* the call before this one: its request, response, clock, matrix
    hexValue,   \* parse_hex_rgba: argument value
    hexDefault, \* parse_hex_rgba: argument default
    hexResult,  \* parse_hex_rgba: outcome (<<>> before the call)
    probe       \* the radius and the boxes computed for one module (<<>>: none)

vars == <<req, clock, pc, m, locals, img, drawn, error, response, calls, prev,
          hexValue, hexDefault, hexResult, probe>>

renderVars == <<req, clock, pc, m, locals, img, drawn, error, response, calls, prev>>
pureVars == <<hexValue, hexDefault, hexResult, probe>>

-----------------------------------------------------------------------------
(* Bounds of the model *)

MaxHexLen == 4          \* parse_hex_rgba is tried on every string up to this length
MaxClock == 2           \* clock readings 0..MaxClock
MaxLogoSide == 5        \* the larger of the decoded logos is a square of this side
MaxCalls == 2           \* calls of create_qr with one request

(* Denominator of the dyadic fractions the float fields are drawn from *)
Den == 64

-----------------------------------------------------------------------------
(* Helpers: parse_hex_rgba, clamp *)

Range(seq) == {seq[i] : i \in DOMAIN seq}

Max(a, b) == IF a >= b THEN a ELSE b
Min(a, b) == IF a <= b THEN a ELSE b

\* The outcome of a call that raised
Raised(exc) == [ok |-> FALSE, exc |-> exc, val |-> <<>>]
Returned(v) == [ok |-> TRUE, exc |-> "", val |-> v]

HexDigits == {"0","1","2","3","4","5","6","7","8","9",
              "a","b","c","d","e","f","A","B","C","D","E","F"}
Whitespace == {" "}
Signs == {"+", "-"}

HexDigitValue(ch) ==
    CASE ch = "0" -> 0 [] ch = "1" -> 1 [] ch = "2" -> 2 [] ch = "3" -> 3
      [] ch = "4" -> 4 [] ch = "5" -> 5 [] ch = "6" -> 6 [] ch = "7" -> 7
      [] ch = "8" -> 8 [] ch = "9" -> 9
      [] ch \in {"a", "A"} -> 10 [] ch \in {"b", "B"} -> 11
      [] ch \in {"c", "C"} -> 12 [] ch \in {"d", "D"} -> 13
      [] ch \in {"e", "E"} -> 14 [] ch \in {"f", "F"} -> 15

\* Python's int(s, 16) on a string s of two characters: two hex digits; or a
\* sign and one digit; or one digit with white space before or after it.
\* Anything else raises ValueError.
Int16(s) ==
    CASE s[1] \in HexDigits /\ s[2] \in HexDigits ->
            Returned(16 * HexDigitValue(s[1]) + HexDigitValue(s[2]))
      [] s[1] = "+" /\ s[2] \in HexDigits -> Returned(HexDigitValue(s[2]))
      [] s[1] = "-" /\ s[2] \in HexDigits -> Returned(0 - HexDigitValue(s[2]))
      [] s[1] \in Whitespace /\ s[2] \in HexDigits -> Returned(HexDigitValue(s[2]))
      [] s[1] \in HexDigits /\ s[2] \in Whitespace -> Returned(HexDigitValue(s[1]))
      [] OTHER -> Raised("ValueError")

\* str.strip(): white space removed at both ends
RECURSIVE LStripWs(_)
LStripWs(s) == IF s # <<>> /\ Head(s) \in Whitespace THEN LStripWs(Tail(s)) ELSE s
RECURSIVE RStripWs(_)
RStripWs(s) ==
    IF s # <<>> /\ s[Len(s)] \in Whitespace
    THEN RStripWs(SubSeq(s, 1, Len(s) - 1)) ELSE s
Strip(s) == RStripWs(LStripWs(s))

\* str.lstrip("#"): every leading "#" removed
RECURSIVE LStripHash(_)
LStripHash(s) == IF s # <<>> /\ Head(s) = "#" THEN LStripHash(Tail(s)) ELSE s

\* The channels int(v[i:i+2], 16) of the 6 and 8 digit forms, in order; the
\* first that raises ends the call.
RECURSIVE HexChannels(_, _)
HexChannels(v, acc) ==
    IF v = <<>> THEN Returned(acc)
    ELSE LET ch == Int16(SubSeq(v, 1, 2))
         IN  IF ch.ok THEN HexChannels(SubSeq(v, 3, Len(v)), Append(acc, ch.val))
             ELSE ch

\* The channels int(v[i] * 2, 16) of the 3 digit form
RECURSIVE HexChannels3(_, _)
HexChannels3(v, acc) ==
    IF v = <<>> THEN Returned(acc)
    ELSE LET ch == Int16(<<v[1], v[1]>>)
         IN  IF ch.ok THEN HexChannels3(Tail(v), Append(acc, ch.val))
             ELSE ch

\* value is a str here: every caller passes a string field of the request
parse_hex_rgba(value, default) ==
    LET v == LStripHash(Strip(value))
    IN  IF Len(v) = 3
        THEN LET c == HexChannels3(v, <<>>)
             IN  IF c.ok THEN Returned(Append(c.val, 255)) ELSE c
        ELSE IF Len(v) = 6
        THEN LET c == HexChannels(v, <<>>)
             IN  IF c.ok THEN Returned(Append(c.val, 255)) ELSE c
        ELSE IF Len(v) = 8
        THEN HexChannels(v, <<>>)
        ELSE Returned(default)

clamp(v, lo, hi) == Max(lo, Min(hi, v))

-----------------------------------------------------------------------------
(* parse_hex_rgba as a called function *)

HexAlphabet == {"#", "9", "a", "F", "g", "+", " "}

RECURSIVE StringsUpTo(_)
StringsUpTo(n) ==
    IF n = 0 THEN {<<>>}
    ELSE LET shorter == StringsUpTo(n - 1)
         IN  shorter \cup {Append(s, ch) : s \in {t \in shorter : Len(t) = n - 1},
                                           ch \in HexAlphabet}

\* The strings of the repository's test and the longer forms
HexSamples ==
    { <<"#","f","f","f">>,
      <<"#","1","1","2","2","3","3">>,
      <<"#","1","1","2","2","3","3","A","A">>,
      <<"i","n","v","a","l","i","d">>,
      <<"1","1","2","2","3","g">>,
      <<"+","1","+","2","+","3">>,
      <<"1","1","2","2","3","3","4","g">>,
      <<"1","1","2","2","3","3","4","4","5">>,
      <<" ","#","#","A","b","C","d","E","f"," ">> }

HexInputs == StringsUpTo(MaxHexLen) \cup HexSamples
HexDefaults == {<<0, 0, 0, 0>>, <<1, 1, 1, 1>>}

InitHex ==
    /\ hexValue \in HexInputs
    /\ hexDefault \in HexDefaults
    /\ hexResult = <<>>
    /\ probe = <<>>

CallParseHex ==
    /\ hexResult = <<>>
    /\ hexResult' = parse_hex_rgba(hexValue, hexDefault)
    /\ UNCHANGED <<hexValue, hexDefault, probe>>
    /\ UNCHANGED renderVars


-----------------------------------------------------------------------------
(* The raster and the Pillow primitives draw_qr uses *)

TRANSPARENT == <<0, 0, 0, 0>>

\* Image.new("RGBA", (size, size), (0, 0, 0, 0))
ImageNew(size) == [y \in 0..(size - 1) |-> [x \in 0..(size - 1) |-> TRANSPARENT]]

InBox(x, y, xy) == xy[1] <= x /\ x <= xy[3] /\ xy[2] <= y /\ y <= xy[4]

\* The disc inscribed in the bounding box xy (both end points included)
InEllipse(x, y, xy) ==
    /\ InBox(x, y, xy)
    /\ LET w == xy[3] - xy[1]
           h == xy[4] - xy[2]
           X == 2 * x - xy[1] - xy[3]
           Y == 2 * y - xy[2] - xy[4]
       IN  X * X * h * h + Y * Y * w * w <= w * w * h * h

\* The box xy with its four corners rounded by quarter discs of the radius
InRounded(x, y, xy, radius) ==
    /\ InBox(x, y, xy)
    /\ LET dx == IF x < xy[1] + radius THEN xy[1] + radius - x
                 ELSE IF x > xy[3] - radius THEN x - (xy[3] - radius) ELSE 0
           dy == IF y < xy[2] + radius THEN xy[2] + radius - y
                 ELSE IF y > xy[4] - radius THEN y - (xy[4] - radius) ELSE 0
       IN  dx * dx + dy * dy <= radius * radius

\* ImageDraw.rectangle(xy, fill): every pixel of the box, clipped to the image
rectangle(im, xy, fill) ==
    [y \in DOMAIN im |->
        IF xy[2] <= y /\ y <= xy[4]
        THEN [x \in DOMAIN im[y] |->
                IF xy[1] <= x /\ x <= xy[3] THEN fill ELSE im[y][x]]
        ELSE im[y]]

\* ImageDraw.rounded_rectangle(xy, radius, fill); radius 0 is rectangle
rounded_rectangle(im, xy, radius, fill) ==
    [y \in DOMAIN im |->
        IF xy[2] <= y /\ y <= xy[4]
        THEN [x \in DOMAIN im[y] |->
                IF InRounded(x, y, xy, radius) THEN fill ELSE im[y][x]]
        ELSE im[y]]

\* ImageDraw.ellipse(xy, fill)
ellipse(im, xy, fill) ==
    [y \in DOMAIN im |->
        IF xy[2] <= y /\ y <= xy[4]
        THEN [x \in DOMAIN im[y] |->
                IF InEllipse(x, y, xy) THEN fill ELSE im[y][x]]
        ELSE im[y]]

\* A decoded logo: a square of one opaque colour (the logos of the tests)
LogoColor == <<0, 0, 255, 255>>

\* The operands swapped: the image is composited over the logo, which shows
\* only where the image is transparent
alpha_composite_under(im, lw, lh, dest) ==
    [y \in DOMAIN im |->
        [x \in DOMAIN im[y] |->
            IF /\ InBox(x, y, <<dest[1], dest[2], dest[1] + lw - 1, dest[2] + lh - 1>>)
               /\ im[y][x] = TRANSPARENT
            THEN LogoColor ELSE im[y][x]]]

\* Image.alpha_composite(logo, dest) with an opaque logo of lw x lh pixels:
\* the logo's pixels replace those of the image
alpha_composite(im, lw, lh, dest) ==
    rectangle(im, <<dest[1], dest[2], dest[1] + lw - 1, dest[2] + lh - 1>>, LogoColor)

\* logo.thumbnail((max_side, max_side)) of a square logo: shrunk to max_side
\* when larger, else left as it is
ThumbnailSide(side, max_side) == Min(side, max_side)

-----------------------------------------------------------------------------
(* generate_matrix.  The QR encoder is the qrcode library: the model keeps *)
(* what draw_qr relies on, a square matrix whose side follows from the     *)
(* payload's length and the level, with the three finders in place, and    *)
(* whose data modules differ when the payloads differ.                     *)

None == "None"          \* Python's None, for the optional str fields
LongText == "https://example.com/fancy"

\* datetime.utcnow().isoformat() when the clock reads t
isoformat(t) == "2026-11-03T05:12:0" \o ToString(t) \o ".000000"

\* The timestamp encoded whatever the text
Payload_always_timestamp(text, t) == isoformat(t)

\* text or datetime.datetime.utcnow().isoformat(): None and "" are both falsy
Payload(text, t) == IF text \in {None, ""} THEN isoformat(t) ELSE text

\* Byte-mode capacity of versions 1..3 at levels L and M
ByteCapacity(version, ec) ==
    IF ec = "L" THEN <<17, 32, 53>>[version] ELSE <<14, 26, 42>>[version]

\* qr.make(fit=True): the smallest version that holds the payload
Version(payload, ec) ==
    CHOOSE v \in 1..3 : /\ Len(payload) <= ByteCapacity(v, ec)
                        /\ \A u \in 1..(v - 1) : Len(payload) > ByteCapacity(u, ec)

PayloadSeed(payload) ==
    CASE payload = "Hello" -> 1
      [] payload = LongText -> 2
      [] OTHER -> 3 + (CHOOSE t \in 0..MaxClock : isoformat(t) = payload)

\* The standard 7x7 finder with its origin at module (0, 0)
FinderDark(r, c) ==
    LET d == Max(IF r >= 3 THEN r - 3 ELSE 3 - r, IF c >= 3 THEN c - 3 ELSE 3 - c)
    IN  d = 3 \/ d <= 1

in_finder_footprint_of(r, c, n) ==
    \/ (0 - 1 <= r /\ r <= 7 /\ 0 - 1 <= c /\ c <= 7)
    \/ (0 - 1 <= r /\ r <= 7 /\ n - 8 <= c /\ c <= n)
    \/ (n - 8 <= r /\ r <= n /\ 0 - 1 <= c /\ c <= 7)

MatrixModule(payload, ec, n, r, c) ==
    IF r <= 6 /\ c <= 6 THEN FinderDark(r, c)
    ELSE IF r <= 6 /\ c >= n - 7 THEN FinderDark(r, c - (n - 7))
    ELSE IF r >= n - 7 /\ c <= 6 THEN FinderDark(r - (n - 7), c)
    ELSE IF in_finder_footprint_of(r, c, n) THEN FALSE
    ELSE IF r = 6 THEN c % 2 = 0
    ELSE IF c = 6 THEN r % 2 = 0
    ELSE ((r + 2 * c) * (PayloadSeed(payload) + 1) + r * r
            + (IF ec = "L" THEN 1 ELSE 0)) % 7 < 4

generate_matrix(text, ec, t) ==
    LET payload == Payload(text, t)
        n == 17 + 4 * Version(payload, ec)
    IN  [r \in 1..n |-> [c \in 1..n |-> MatrixModule(payload, ec, n, r - 1, c - 1)]]

-----------------------------------------------------------------------------
(* draw_qr *)

\* The module size with the quiet zone counted on one side only
Geometry_one_quiet_zone(n, b, size) ==
    LET total == n + b
        s == size \div total
        rendered == total * s
    IN  [N |-> n, B |-> b, SIZE |-> size, modules_total |-> total, S |-> s,
         render_px |-> rendered, offset |-> (size - rendered) \div 2]

\* Lines 107-117: the module size and the offset of the symbol in the canvas
Geometry(n, b, size) ==
    LET total == n + 2 * b
        s == size \div total
        rendered == total * s
    IN  [N |-> n, B |-> b, SIZE |-> size, modules_total |-> total, S |-> s,
         render_px |-> rendered, offset |-> (size - rendered) \div 2]

N == locals.N
B == locals.B
SIZE == locals.SIZE
S == locals.S
render_px == locals.render_px
offset == locals.offset
DARK == locals.DARK
LIGHT == locals.LIGHT

DefaultDark == <<0, 0, 0, 255>>
DefaultLight == <<255, 255, 255, 255>>

\* Row and column taken for each other
rect_for_block_transposed(r0, c0, w) ==
    LET x0 == offset + (B + r0) * S
        y0 == offset + (B + c0) * S
    IN  <<x0, y0, x0 + w * S, y0 + w * S>>

rect_for_block(r0, c0, w) ==
    LET x0 == offset + (B + c0) * S
        y0 == offset + (B + r0) * S
    IN  <<x0, y0, x0 + w * S, y0 + w * S>>

\* int(req.finder_round_ratio * S * 2.0) if req.rounded_canvas else 0
bg_radius(rq) ==
    IF rq.rounded_canvas THEN (rq.finder_round_ratio * S * 2) \div Den ELSE 0

\* int(req.finder_round_ratio * S)
r_band(rq) == (rq.finder_round_ratio * S) \div Den
\* int(req.finder_round_ratio * 1.5 * S)
r_eye(rq) == (rq.finder_round_ratio * 3 * S) \div (2 * Den)

in_finder_footprint(r, c) == in_finder_footprint_of(r, c, N)

\* Rounded white background
DrawBackground(im, rq) ==
    rounded_rectangle(im, <<offset, offset, offset + render_px, offset + render_px>>,
                      bg_radius(rq), LIGHT)

draw_finder(im, rq, top_r, left_c) ==
    rounded_rectangle(
        rounded_rectangle(
            rounded_rectangle(
                rectangle(im, rect_for_block(top_r - 1, left_c - 1, 9), LIGHT),
                rect_for_block(top_r, left_c, 7), r_band(rq), DARK),
            rect_for_block(top_r + 1, left_c + 1, 5), r_band(rq), LIGHT),
        rect_for_block(top_r + 2, left_c + 2, 3), r_eye(rq), DARK)

\* Square finders (still 7/5/3 structure + 1-module separator)
draw_square_finder(im, top_r, left_c) ==
    rectangle(
        rectangle(
            rectangle(
                rectangle(im, rect_for_block(top_r - 1, left_c - 1, 9), LIGHT),
                rect_for_block(top_r, left_c, 7), DARK),
            rect_for_block(top_r + 1, left_c + 1, 5), LIGHT),
        rect_for_block(top_r + 2, left_c + 2, 3), DARK)

DrawFinders(im, rq) ==
    IF rq.rounded_finders
    THEN draw_finder(draw_finder(draw_finder(im, rq, 0, 0), rq, 0, N - 7), rq, N - 7, 0)
    ELSE draw_square_finder(
            draw_square_finder(draw_square_finder(im, 0, 0), 0, N - 7), N - 7, 0)

\* The largest dot_margin in Den-ths that is at most 0.49, and the largest
\* hole_percentage that is at most 0.20
DotMarginMax == 31
HolePercentageMax == 12

\* Python's round(num / den): to the nearest integer, a tie to the even one
Round(num, den) ==
    LET q == num \div den
        rest == num % den
    IN  IF 2 * rest < den THEN q
        ELSE IF 2 * rest > den THEN q + 1
        ELSE IF q % 2 = 0 THEN q ELSE q + 1

\* The radius rounded instead of truncated
r_px_rounded(rq) == Round(S * (Den \div 2 - clamp(rq.dot_margin, 0, DotMarginMax)), Den)

\* r_px = int(S * (0.5 - clamp(req.dot_margin, 0.0, 0.49)))
r_px(rq) == (S * (Den \div 2 - clamp(rq.dot_margin, 0, DotMarginMax))) \div Den

\* The bounding box of the dot of module (r, c)
dot_box(rq, r, c) ==
    LET cx == offset + (B + c) * S + S \div 2
        cy == offset + (B + r) * S + S \div 2
    IN  <<cx - r_px(rq), cy - r_px(rq), cx + r_px(rq), cy + r_px(rq)>>

\* Whether the loops draw module (r, c)
IsDrawnModule(r, c) ==
    /\ 0 <= r /\ r < N /\ 0 <= c /\ c < N
    /\ m[r + 1][c + 1]
    /\ ~in_finder_footprint(r, c)

\* Whether what the loops draw for module (r, c) paints pixel (x, y)
ModulePaints(rq, r, c, x, y) ==
    IF rq.dot_style THEN InEllipse(x, y, dot_box(rq, r, c))
    ELSE InBox(x, y, rect_for_block(r, c, 1))

\* The module row (or column) whose cell holds pixel coordinate p
ModuleAt(p) == (p - offset) \div S - B

\* Data modules (dots or squares), skipping the 9x9 finder+separator areas.
\* Every module is drawn in DARK, so the loops paint the pixels some drawn
\* module paints; a box reaches at most one pixel beyond its cell, so only the
\* modules next to the pixel's own are looked at.
DrawDataModules(im, rq) ==
    [y \in DOMAIN im |->
        [x \in DOMAIN im[y] |->
            IF \E r \in (ModuleAt(y) - 1)..(ModuleAt(y) + 1),
                  c \in (ModuleAt(x) - 1)..(ModuleAt(x) + 1) :
                    IsDrawnModule(r, c) /\ ModulePaints(rq, r, c, x, y)
            THEN DARK ELSE im[y][x]]]

\* hole_px = int(render_px * clamp(req.hole_percentage, 0.0, 0.20))
hole_px(rq) == (render_px * clamp(rq.hole_percentage, 0, HolePercentageMax)) \div Den

\* cx = cy = offset + render_px // 2
center == offset + render_px \div 2

\* The hole anchored at the symbol's corner instead of its centre
HoleBox_at_corner(rq) ==
    LET h == hole_px(rq) \div 2
    IN  <<offset - h, offset - h, offset + h, offset + h>>

HoleBox(rq) ==
    LET h == hole_px(rq) \div 2
    IN  <<center - h, center - h, center + h, center + h>>

DrawHole(im, rq) ==
    IF rq.hole_shape = "rectangle"
    THEN rectangle(im, HoleBox(rq), LIGHT)
    ELSE ellipse(im, HoleBox(rq), LIGHT)

\* max_side = int(SIZE * 0.20)
max_side == (SIZE * 20) \div 100

LogoBox(side) ==
    LET lw == ThumbnailSide(side, max_side)
    IN  <<center - lw \div 2, center - lw \div 2,
          center - lw \div 2 + lw - 1, center - lw \div 2 + lw - 1>>

DrawLogo(im, side) ==
    LET lw == ThumbnailSide(side, max_side)
    IN  alpha_composite(im, lw, lw, <<center - lw \div 2, center - lw \div 2>>)

-----------------------------------------------------------------------------
(* The request.  req holds the fields of the QRRequest that are fixed so   *)
(* far.  The request does not change while it is served, so a field no     *)
(* step has read yet is fixed by the step that first reads it; a field     *)
(* fixed before (by Init, or by an earlier call) keeps its value.          *)
(* The float fields are within the ranges the Field declarations enforce.  *)

Draw(field, values) == IF field \in DOMAIN req THEN {req[field]} ELSE values
With(rq, field, value) == IF field \in DOMAIN rq THEN rq ELSE (field :> value) @@ rq

Chars(str) ==
    CASE str = "#336699" -> <<"#","3","3","6","6","9","9">>
      [] str = "#ffeeff" -> <<"#","f","f","e","e","f","f">>
      [] str = "#000000" -> <<"#","0","0","0","0","0","0">>
      [] str = "#ffffff" -> <<"#","f","f","f","f","f","f">>
      [] str = "12345g" -> <<"1","2","3","4","5","g">>
      [] str = "invalid" -> <<"i","n","v","a","l","i","d">>

Texts == {"Hello", None}
ErrorCorrections == {"M"}
QuietZones == {1, 2}
\* draw_qr reads SIZE = req.pixel_size and works for any size; the canvases
\* here are small ones, giving modules of 0, 1 and 2 pixels, in place of the
\* 1080 that the request model fixes
PixelSizes == {24, 46}
Foregrounds == {"#336699", "12345g"}
Backgrounds == {"#ffeeff"}
FinderRoundRatios == {0, Den \div 2}
DotMargins == {0, Den \div 4}
HolePercentages == {0, Den \div 8, HolePercentageMax}
HoleShapes == {"circle", "rectangle"}

\* logo_base64: None; a string that is not base64; base64 of bytes that are
\* no image; base64 of a PNG (a square of the given side)
NoLogo == [kind |-> "none", side |-> 0]
LogoValues ==
    {NoLogo, [kind |-> "not_base64", side |-> 0], [kind |-> "not_image", side |-> 0]}
    \cup {[kind |-> "png", side |-> s] : s \in {2, MaxLogoSide}}

NoResponse == [status |-> 0, png |-> <<>>, error |-> ""]

-----------------------------------------------------------------------------
(* create_qr and the steps of draw_qr *)

\* QRRequest.validate_b64, run when FastAPI builds the request: a
\* logo_base64 that is not base64 is answered 422
Validate ==
    /\ pc = "request"
    /\ IF req.logo_base64.kind = "not_base64"
       THEN /\ response' = [status |-> 422, png |-> <<>>,
                            error |-> "logo_base64 must be valid base64"]
            /\ pc' = "responded"
       ELSE /\ response' = response
            /\ pc' = "generate_matrix"
    /\ UNCHANGED <<req, clock, m, locals, img, drawn, error, calls, prev>>
    /\ UNCHANGED pureVars

\* m = generate_matrix(req.text, req.error_correction)
GenerateMatrix ==
    /\ pc = "generate_matrix"
    /\ \E text \in Draw("text", Texts), ec \in Draw("error_correction", ErrorCorrections) :
        /\ req' = With(With(req, "text", text), "error_correction", ec)
        /\ m' = generate_matrix(text, ec, clock)
    /\ pc' = "module_size"
    /\ UNCHANGED <<clock, locals, img, drawn, error, response, calls, prev>>
    /\ UNCHANGED pureVars

\* N, B, SIZE, modules_total, S; raise when S < 1; render_px, offset
ModuleSize ==
    /\ pc = "module_size"
    /\ \E b \in Draw("quiet_zone_modules", QuietZones), size \in Draw("pixel_size", PixelSizes) :
        /\ req' = With(With(req, "quiet_zone_modules", b), "pixel_size", size)
        /\ locals' = Geometry(Len(m), b, size)
        /\ IF Geometry(Len(m), b, size).S < 1
           THEN /\ error' = "Output too small for this payload/EC; increase pixel_size."
                /\ pc' = "except"
           ELSE /\ error' = error
                /\ pc' = "canvas"
    /\ UNCHANGED <<clock, m, img, drawn, response, calls, prev>>
    /\ UNCHANGED pureVars

\* DARK, LIGHT = parse_hex_rgba(...); img = Image.new(...)
Canvas ==
    /\ pc = "canvas"
    /\ \E fg \in Draw("foreground", Foregrounds), bg \in Draw("background", Backgrounds) :
        LET dark == parse_hex_rgba(Chars(fg), DefaultDark)
            light == parse_hex_rgba(Chars(bg), DefaultLight)
        IN  /\ req' = With(With(req, "foreground", fg), "background", bg)
            /\ IF dark.ok /\ light.ok
               THEN /\ locals' = [DARK |-> dark.val, LIGHT |-> light.val] @@ locals
                    /\ img' = ImageNew(SIZE)
                    /\ error' = error
                    /\ pc' = "background"
               ELSE /\ error' = "ValueError"
                    /\ pc' = "except"
                    /\ UNCHANGED <<locals, img>>
    /\ UNCHANGED <<clock, m, drawn, response, calls, prev>>
    /\ UNCHANGED pureVars

Background ==
    /\ pc = "background"
    /\ \E rc \in Draw("rounded_canvas", BOOLEAN),
          ratio \in Draw("finder_round_ratio", FinderRoundRatios) :
        LET rq == With(With(req, "rounded_canvas", rc), "finder_round_ratio", ratio)
        IN  /\ req' = rq
            /\ img' = DrawBackground(img, rq)
    /\ drawn' = Append(drawn, "background")
    /\ pc' = "finders"
    /\ UNCHANGED <<clock, m, locals, error, response, calls, prev>>
    /\ UNCHANGED pureVars

\* 1) Finders first
Finders ==
    /\ pc = "finders"
    /\ \E rf \in Draw("rounded_finders", BOOLEAN) :
        LET rq == With(req, "rounded_finders", rf)
        IN  /\ req' = rq
            /\ img' = DrawFinders(img, rq)
    /\ drawn' = Append(drawn, "finders")
    /\ pc' = "data_modules"
    /\ UNCHANGED <<clock, m, locals, error, response, calls, prev>>
    /\ UNCHANGED pureVars

\* 2) Data modules: dot_margin is read in dot style only
DataModules ==
    /\ pc = "data_modules"
    /\ \E ds \in Draw("dot_style", BOOLEAN) :
        \E dm \in IF ds THEN Draw("dot_margin", DotMargins) ELSE {0} :
            LET rq == IF ds THEN With(With(req, "dot_style", ds), "dot_margin", dm)
                      ELSE With(req, "dot_style", ds)
            IN  /\ req' = rq
                /\ img' = DrawDataModules(img, rq)
    /\ drawn' = Append(drawn, "data_modules")
    /\ pc' = "hole"
    /\ UNCHANGED <<clock, m, locals, error, response, calls, prev>>
    /\ UNCHANGED pureVars

\* 3) Hole: if req.hole and req.hole_percentage > 0
Hole ==
    /\ pc = "hole"
    /\ \E h \in Draw("hole", BOOLEAN) :
        IF ~h
        THEN /\ req' = With(req, "hole", h)
             /\ UNCHANGED <<img, drawn>>
        ELSE \E pct \in Draw("hole_percentage", HolePercentages) :
            IF pct <= 0
            THEN /\ req' = With(With(req, "hole", h), "hole_percentage", pct)
                 /\ UNCHANGED <<img, drawn>>
            ELSE \E shape \in Draw("hole_shape", HoleShapes) :
                LET rq == With(With(With(req, "hole", h), "hole_percentage", pct),
                               "hole_shape", shape)
                IN  /\ req' = rq
                    /\ img' = DrawHole(img, rq)
                    /\ drawn' = Append(drawn, "hole")
    /\ pc' = "logo"
    /\ UNCHANGED <<clock, m, locals, error, response, calls, prev>>
    /\ UNCHANGED pureVars

\* The logo step without its try: what Image.open raises leaves draw_qr
Logo_unguarded ==
    /\ pc = "logo"
    /\ \E ul \in Draw("use_logo", BOOLEAN) :
        /\ req' = With(req, "use_logo", ul)
        /\ IF ul /\ req.logo_base64.kind # "none"
           THEN IF req.logo_base64.kind = "png"
                THEN /\ img' = DrawLogo(img, req.logo_base64.side)
                     /\ drawn' = Append(drawn, "logo")
                     /\ error' = error
                     /\ pc' = "return"
                ELSE /\ error' = "cannot identify image file"
                     /\ pc' = "except"
                     /\ UNCHANGED <<img, drawn>>
           ELSE /\ UNCHANGED <<img, drawn, error>>
                /\ pc' = "return"
    /\ UNCHANGED <<clock, m, locals, response, calls, prev>>
    /\ UNCHANGED pureVars

\* 4) Logo: if req.use_logo and req.logo_base64, inside try/except Exception
Logo ==
    /\ pc = "logo"
    /\ \E ul \in Draw("use_logo", BOOLEAN) :
        /\ req' = With(req, "use_logo", ul)
        /\ IF ul /\ req.logo_base64.kind # "none"
           THEN IF req.logo_base64.kind = "png"
                THEN /\ img' = DrawLogo(img, req.logo_base64.side)
                     /\ drawn' = Append(drawn, "logo")
                ELSE \* Image.open raised: except Exception: pass
                     UNCHANGED <<img, drawn>>
           ELSE UNCHANGED <<img, drawn>>
    /\ pc' = "return"
    /\ UNCHANGED <<clock, m, locals, error, response, calls, prev>>
    /\ UNCHANGED pureVars

\* return img; create_qr encodes it as PNG and answers 200
Return ==
    /\ pc = "return"
    /\ response' = [status |-> 200, png |-> img, error |-> ""]
    /\ pc' = "responded"
    /\ UNCHANGED <<req, clock, m, locals, img, drawn, error, calls, prev>>
    /\ UNCHANGED pureVars

\* except Exception as e: answered 400 with str(e)
Except ==
    /\ pc = "except"
    /\ response' = [status |-> 400, png |-> <<>>, error |-> error]
    /\ pc' = "responded"
    /\ UNCHANGED <<req, clock, m, locals, img, drawn, error, calls, prev>>
    /\ UNCHANGED pureVars

\* What a later call is compared with: the call before it
NoCall == [req |-> <<>>, response |-> NoResponse, clock |-> 0, m |-> <<>>]
ThisCall == [req |-> req, response |-> response, clock |-> clock, m |-> m]

\* create_qr is entered anew: nothing of the call before is kept
Enter ==
    /\ pc' = "request"
    /\ m' = <<>>
    /\ locals' = <<>>
    /\ img' = <<>>
    /\ drawn' = <<>>
    /\ error' = ""
    /\ response' = NoResponse

\* The same request is posted again, at the same or a later time
CallAgain ==
    /\ pc = "responded"
    /\ calls < MaxCalls
    /\ calls' = calls + 1
    /\ prev' = ThisCall
    /\ \E t \in clock..MaxClock : clock' = t
    /\ Enter
    /\ UNCHANGED req
    /\ UNCHANGED pureVars

\* The request is posted again with use_logo cleared and nothing else changed
CallWithoutLogo ==
    /\ pc = "responded"
    /\ calls < MaxCalls
    /\ req.use_logo
    /\ calls' = calls + 1
    /\ prev' = ThisCall
    /\ \E t \in clock..MaxClock : clock' = t
    /\ Enter
    /\ req' = [req EXCEPT !.use_logo = FALSE]
    /\ UNCHANGED pureVars

InitRender ==
    /\ clock = 0
    /\ pc = "request"
    /\ m = <<>>
    /\ locals = <<>>
    /\ img = <<>>
    /\ drawn = <<>>
    /\ error = ""
    /\ response = NoResponse
    /\ calls = 1
    /\ prev = NoCall

NoHexCall ==
    /\ hexValue = <<>>
    /\ hexDefault = <<0, 0, 0, 0>>
    /\ hexResult = <<>>

NoPureCall == NoHexCall /\ probe = <<>>

Init ==
    /\ \E logo \in LogoValues : req = [logo_base64 |-> logo]
    /\ InitRender
    /\ NoPureCall

Next ==
    \/ Validate
    \/ GenerateMatrix
    \/ ModuleSize
    \/ Canvas
    \/ Background
    \/ Finders
    \/ DataModules
    \/ Hole
    \/ Logo
    \/ Return
    \/ Except

Spec == Init /\ [][Next]_vars

-----------------------------------------------------------------------------
(* parse_hex_rgba called on its own, on every string of HexInputs *)

NoRequest ==
    /\ req = <<>>
    /\ InitRender

InitParseHex == InitHex /\ NoRequest

NextParseHex == CallParseHex

SpecHex == InitParseHex /\ [][NextParseHex]_vars

-----------------------------------------------------------------------------
(* The dot of one module, computed on its own for every module size from 1 *)
(* to the largest a canvas of 1080 pixels gives, and every dot_margin.     *)

MaxModuleSize == 46     \* 1080 // (21 + 2 * 1)

\* Canvas sizes that give each module size, with and without a margin left over
DotCanvasSizes == {23 * s + k : s \in 1..MaxModuleSize, k \in {0, 11}}

\* The modules whose dot is computed: the first and last that can be data
DotModules == {<<8, 8>>, <<20, 9>>}

InitDot ==
    /\ \E size \in DotCanvasSizes, dm \in 0..DotMarginMax :
        /\ req = [dot_style |-> TRUE, dot_margin |-> dm]
        /\ locals = Geometry(21, 1, size)
    /\ clock = 0
    /\ pc = "data_modules"
    /\ m = <<>>
    /\ img = <<>>
    /\ drawn = <<>>
    /\ error = ""
    /\ response = NoResponse
    /\ calls = 1
    /\ prev = NoCall
    /\ NoHexCall
    /\ probe = <<>>

\* Lines 177-186 for one module (r, c): cx, cy, r_px and the ellipse's box
DrawDot ==
    /\ probe = <<>>
    /\ \E rc \in DotModules :
        probe' = [r |-> rc[1], c |-> rc[2], r_px |-> r_px(req),
                  box |-> dot_box(req, rc[1], rc[2]),
                  cell |-> rect_for_block(rc[1], rc[2], 1)]
    /\ UNCHANGED <<hexValue, hexDefault, hexResult>>
    /\ UNCHANGED renderVars

NextDot == DrawDot

SpecDot == InitDot /\ [][NextDot]_vars

-----------------------------------------------------------------------------
(* The module size, the offset and rect_for_block on their own: draw_qr    *)
(* from the matrix it was given up to the rectangle of one block.          *)

MaxCanvas == 120        \* canvases of 23..MaxCanvas pixels, and of 1080

BlockSides == {21, 25, 29}
BlockCanvasSizes == (23..MaxCanvas) \cup {1080}

\* qr.get_matrix() of a symbol of side n
MatrixOfSide(n) ==
    [r \in 1..n |-> [c \in 1..n |-> MatrixModule("Hello", "M", n, r - 1, c - 1)]]

\* The blocks draw_qr asks rectangles for: the separators, a finder, an eye,
\* single modules, and the corners and the whole of the symbol
Blocks(n, b) ==
    { <<0 - 1, 0 - 1, 9>>, <<0 - 1, n - 8, 9>>, <<n - 8, 0 - 1, 9>>,
      <<0, n - 7, 7>>, <<n - 5, 2, 3>>, <<8, n - 1, 1>>,
      <<0 - b, 0 - b, 1>>, <<n + b - 1, n + b - 1, 1>>, <<0 - b, 0 - b, n + 2 * b>> }

InitBlocks ==
    /\ \E n \in BlockSides, b \in 1..8, size \in BlockCanvasSizes :
        /\ req = [quiet_zone_modules |-> b, pixel_size |-> size]
        /\ m = MatrixOfSide(n)
    /\ clock = 0
    /\ pc = "module_size"
    /\ locals = <<>>
    /\ img = <<>>
    /\ drawn = <<>>
    /\ error = ""
    /\ response = NoResponse
    /\ calls = 1
    /\ prev = NoCall
    /\ NoPureCall

\* rect_for_block(r0, c0, w) for one block
BlockRect ==
    /\ pc = "canvas"
    /\ probe = <<>>
    /\ \E blk \in Blocks(N, B) :
        probe' = [r0 |-> blk[1], c0 |-> blk[2], w |-> blk[3],
                  rect |-> rect_for_block(blk[1], blk[2], blk[3])]
    /\ UNCHANGED <<hexValue, hexDefault, hexResult>>
    /\ UNCHANGED renderVars

NextBlocks ==
    \/ ModuleSize
    \/ BlockRect

SpecBlocks == InitBlocks /\ [][NextBlocks]_vars

-----------------------------------------------------------------------------
(* The module size for the requests the QRRequest model accepts, on a      *)
(* symbol of every QR version.                                             *)

\* The sides of the QR versions 1..40
SymbolSides == {17 + 4 * v : v \in 1..40}

\* pixel_size: Literal[1080]
ValidPixelSizes == {1080}

\* quiet_zone_modules with an upper limit of 32
ValidQuietZones_le_32 == 1..32

\* quiet_zone_modules: Field(4, ge=1, le=8)
ValidQuietZones == 1..8

InitValidated ==
    /\ \E n \in SymbolSides, b \in ValidQuietZones, size \in ValidPixelSizes :
        /\ req = [quiet_zone_modules |-> b, pixel_size |-> size]
        /\ m = MatrixOfSide(n)
    /\ clock = 0
    /\ pc = "module_size"
    /\ locals = <<>>
    /\ img = <<>>
    /\ drawn = <<>>
    /\ error = ""
    /\ response = NoResponse
    /\ calls = 1
    /\ prev = NoCall
    /\ NoPureCall

NextValidated == ModuleSize

SpecValidated == InitValidated /\ [][NextValidated]_vars

-----------------------------------------------------------------------------
(* One request posted twice: the second time as it is, or with use_logo    *)
(* cleared.  The requests are whole from the start.                        *)

RepeatTexts == {None, "", "Hello"}

RepeatRequests ==
    [ text : RepeatTexts,
      error_correction : ErrorCorrections,
      quiet_zone_modules : QuietZones,
      pixel_size : PixelSizes,
      foreground : {"#336699"},
      background : {"#ffeeff"},
      rounded_canvas : {TRUE},
      finder_round_ratio : {Den \div 2},
      rounded_finders : {TRUE},
      dot_style : {FALSE},
      dot_margin : {0},
      hole : {TRUE},
      hole_percentage : {HolePercentageMax},
      hole_shape : {"circle"},
      logo_base64 : LogoValues,
      use_logo : BOOLEAN ]

InitRepeat ==
    /\ req \in RepeatRequests
    /\ InitRender
    /\ NoPureCall

NextRepeat ==
    \/ Validate
    \/ GenerateMatrix
    \/ ModuleSize
    \/ Canvas
    \/ Background
    \/ Finders
    \/ DataModules
    \/ Hole
    \/ Logo
    \/ Return
    \/ Except
    \/ CallAgain
    \/ CallWithoutLogo

SpecRepeat == InitRepeat /\ [][NextRepeat]_vars

-----------------------------------------------------------------------------
(* Notions the claims are stated in *)

\* The field is fixed, to this value
Is(field, value) == field \in DOMAIN req /\ req[field] = value

Answered(status) == pc = "responded" /\ response.status = status

\* The pixels of the cell of module (r, c): S x S, from the module's corner
CellXs(c) == (offset + (B + c) * S)..(offset + (B + c) * S + S - 1)
CellYs(r) == (offset + (B + r) * S)..(offset + (B + r) * S + S - 1)

\* The module origins (top - 1, left - 1) of the three 9x9 footprints
FootprintOrigins == {<<0 - 1, 0 - 1>>, <<0 - 1, N - 8>>, <<N - 8, 0 - 1>>}

\* The pixel rectangle of the footprint with origin o: the cells of its 9x9 modules
FootprintXs(o) == (offset + (B + o[2]) * S)..(offset + (B + o[2] + 9) * S - 1)
FootprintYs(o) == (offset + (B + o[1]) * S)..(offset + (B + o[1] + 9) * S - 1)

\* Whether the data-module loops paint pixel (x, y)
DataPaints(x, y) ==
    \E r \in (ModuleAt(y) - 1)..(ModuleAt(y) + 1),
       c \in (ModuleAt(x) - 1)..(ModuleAt(x) + 1) :
        IsDrawnModule(r, c) /\ ModulePaints(req, r, c, x, y)

\* The pixels of the symbol (quiet zone included) that lie in the canvas
SymbolRange == offset..(offset + render_px - 1)

InQuietZone(x, y) ==
    /\ x \in SymbolRange /\ y \in SymbolRange
    /\ (ModuleAt(x) < 0 \/ ModuleAt(x) >= N \/ ModuleAt(y) < 0 \/ ModuleAt(y) >= N)

-----------------------------------------------------------------------------
(* C1.  Data-module drawing never paints a pixel inside the pixel rectangle *)
(* of one of the three 9x9 finder footprints: a dark module inside a        *)
(* footprint is skipped, and the square or dot of a dark module outside     *)
(* them does not reach into a footprint.                                    *)
C1_DataStaysOutOfFootprints ==
    pc = "hole" =>
        /\ \A r \in 0..(N - 1), c \in 0..(N - 1) :
            in_finder_footprint(r, c) => ~IsDrawnModule(r, c)
        /\ \A o \in FootprintOrigins :
            \A x \in FootprintXs(o), y \in FootprintYs(o) : ~DataPaints(x, y)

-----------------------------------------------------------------------------
(* C2.  With no hole and no logo, every pixel of the quiet zone, the        *)
(* corners of the symbol included, is the background colour in the raster   *)
(* that is returned.                                                        *)
C2_QuietZoneIsBackground ==
    (Answered(200) /\ ~req.hole /\ ~req.use_logo) =>
        \A x \in SymbolRange, y \in SymbolRange :
            InQuietZone(x, y) => response.png[y][x] = LIGHT

-----------------------------------------------------------------------------
(* C4.  When floor(canvasSizePx / (N + 2 * quietZoneModules)) < 1 the       *)
(* render fails with the insufficient-canvas error before a pixel is drawn, *)
(* no raster is returned and /qr answers a failure; when the quotient is at *)
(* least 1 that error is not raised.                                        *)
TooSmall == "Output too small for this payload/EC; increase pixel_size."

Quotient == req.pixel_size \div (Len(m) + 2 * req.quiet_zone_modules)

C4_InsufficientCanvas ==
    (pc \notin {"request", "generate_matrix", "module_size"} /\ m # <<>>) =>
        /\ Quotient < 1 =>
            /\ pc \in {"except", "responded"}
            /\ error = TooSmall
            /\ img = <<>>
            /\ drawn = <<>>
            /\ pc = "responded" =>
                (response.status = 400 /\ response.png = <<>> /\ response.error = TooSmall)
        /\ Quotient >= 1 => error # TooSmall

C4_Witness ==
    /\ Answered(400)
    /\ response.error = TooSmall
    /\ Quotient < 1

-----------------------------------------------------------------------------
(* C8.  Both finder modes draw, for each finder, a 9x9 background block, a  *)
(* 7x7 foreground block, a 5x5 background block and a 3x3 foreground block; *)
(* with rounded_finders off, or with both radii zero, the two modes give    *)
(* the same raster and every module of a footprint is light on the          *)
(* separator ring, dark on the 7x7 ring, light on the 5x5 ring and dark in  *)
(* the eye.                                                                 *)
FinderOrigins == {<<0, 0>>, <<0, N - 7>>, <<N - 7, 0>>}

\* The colour the standard pattern gives module (top + dr, left + dc)
RingColour(dr, dc) ==
    IF dr \in 0..6 /\ dc \in 0..6 /\ FinderDark(dr, dc) THEN DARK ELSE LIGHT

Sharp == ~req.rounded_finders \/ (r_band(req) = 0 /\ r_eye(req) = 0)

OtherMode == [req EXCEPT !.rounded_finders = ~req.rounded_finders]

C8_StandardFinders ==
    (pc = "data_modules" /\ Sharp) =>
        /\ \A o \in FinderOrigins, dr \in (0 - 1)..7, dc \in (0 - 1)..7 :
            \A x \in CellXs(o[2] + dc), y \in CellYs(o[1] + dr) :
                img[y][x] = RingColour(dr, dc)
        /\ (r_band(req) = 0 /\ r_eye(req) = 0) =>
            \A y \in 0..(SIZE - 1), x \in 0..(SIZE - 1) :
                img[y][x] =
                    DrawFinders(DrawBackground(ImageNew(SIZE), req), OtherMode)[y][x]

-----------------------------------------------------------------------------
(* C3.  As stated: whenever hole is set, the pixel at the canvas centre     *)
(* (SIZE / 2, SIZE / 2) of the returned raster is the background colour.    *)
CanvasCentre == SIZE \div 2

C3_HoleClearsCentre_AsStated ==
    (Answered(200) /\ req.hole) =>
        response.png[CanvasCentre][CanvasCentre] = LIGHT

\* The half-size of the hole: floor(floor(renderedPx * holeFraction) / 2)
HoleHalf == hole_px(req) \div 2

\* The hole is large enough to reach the canvas centre from the symbol centre
HoleReachesCentre ==
    /\ req.hole_percentage > 0
    /\ \/ HoleHalf >= 2
       \/ HoleHalf >= 1 /\ (Is("hole_shape", "rectangle") \/ center = CanvasCentre)

(* C3.  Amended: when hole is set, no logo is composited and the hole's     *)
(* half-size floor(floor(renderedPx * holeFraction) / 2) is at least 2 (at  *)
(* least 1 for a rectangular hole, or when the symbol centre is the canvas  *)
(* centre), the pixel at the canvas centre is the background colour.        *)
C3_HoleClearsCentre ==
    (Answered(200) /\ req.hole /\ HoleReachesCentre /\ "logo" \notin Range(drawn)) =>
        response.png[CanvasCentre][CanvasCentre] = LIGHT

\* The hole cleared a dark data module at the canvas centre
C3_Witness ==
    /\ Answered(200) /\ req.hole /\ HoleReachesCentre /\ "logo" \notin Range(drawn)
    /\ IsDrawnModule(ModuleAt(CanvasCentre), ModuleAt(CanvasCentre))
    /\ DataPaints(CanvasCentre, CanvasCentre)
    /\ response.png[CanvasCentre][CanvasCentre] = LIGHT

-----------------------------------------------------------------------------
(* C9.  The drawing steps of a render occur in the order background,        *)
(* finders, data modules, hole, logo, each at most once and none after the  *)
(* raster is returned, so a pixel has the colour of the last step that      *)
(* covers it: the hole overwrites finder and data pixels, the logo          *)
(* overwrites the hole, and with both a hole and a logo drawn the pixel at  *)
(* the symbol's centre has the logo's colour.                               *)
StepOrder == <<"background", "finders", "data_modules", "hole", "logo">>

Position(step) == CHOOSE k \in DOMAIN StepOrder : StepOrder[k] = step

InFixedOrder(steps) ==
    /\ Range(steps) \subseteq Range(StepOrder)
    /\ \A i \in DOMAIN steps, j \in DOMAIN steps :
        i < j => Position(steps[i]) < Position(steps[j])

LogoDrawn == "logo" \in Range(drawn)
HoleDrawn == "hole" \in Range(drawn)

InLogo(x, y) == LogoDrawn /\ InBox(x, y, LogoBox(req.logo_base64.side))

InHole(x, y) ==
    /\ HoleDrawn
    /\ IF req.hole_shape = "rectangle"
       THEN InBox(x, y, HoleBox(req))
       ELSE InEllipse(x, y, HoleBox(req))

\* The pixels around the symbol's centre that a hole or a logo can cover
CentreWindow ==
    Max(0, center - MaxLogoSide - 1)..Min(SIZE - 1, center + MaxLogoSide + 1)

\* The raster as the finders step leaves it
AfterFinders == DrawFinders(DrawBackground(ImageNew(SIZE), req), req)

C9_StepOrder ==
    /\ InFixedOrder(drawn)
    /\ (pc = "return" \/ Answered(200)) =>
        {"background", "finders", "data_modules"} \subseteq Range(drawn)
    /\ Answered(200) =>
        /\ response.png = img
        /\ \A x \in CentreWindow, y \in CentreWindow :
            response.png[y][x] =
                IF InLogo(x, y) THEN LogoColor
                ELSE IF InHole(x, y) THEN LIGHT
                ELSE IF DataPaints(x, y) THEN DARK
                ELSE AfterFinders[y][x]
        /\ (HoleDrawn /\ LogoDrawn) => response.png[center][center] = LogoColor

\* A hole and a logo were both drawn: the logo shows at the centre, the hole
\* shows around it where a dark module had been drawn
C9_Witness ==
    /\ Answered(200)
    /\ drawn = StepOrder
    /\ response.png[center][center] = LogoColor
    /\ \E x \in CentreWindow, y \in CentreWindow :
        /\ InHole(x, y) /\ ~InLogo(x, y) /\ DataPaints(x, y)
        /\ response.png[y][x] = LIGHT

-----------------------------------------------------------------------------
(* C5.  parse_hex_rgba is total: it returns an RGBA tuple for every string. *)
(* A string of exactly 3, 6 or 8 hex digits, with an optional leading "#",  *)
(* gives its channels, with alpha 255 when it has no alpha digits; every    *)
(* other string gives the caller's default.                                 *)
Unhashed(str) == IF str # <<>> /\ Head(str) = "#" THEN Tail(str) ELSE str

IsHexColour(str) ==
    /\ Len(Unhashed(str)) \in {3, 6, 8}
    /\ \A i \in DOMAIN Unhashed(str) : Unhashed(str)[i] \in HexDigits

\* The channel that the digits hi and lo spell
Channel(hi, lo) == 16 * HexDigitValue(hi) + HexDigitValue(lo)

ColourOf(str) ==
    LET v == Unhashed(str)
    IN  IF Len(v) = 3
        THEN <<Channel(v[1], v[1]), Channel(v[2], v[2]), Channel(v[3], v[3]), 255>>
        ELSE IF Len(v) = 6
        THEN <<Channel(v[1], v[2]), Channel(v[3], v[4]), Channel(v[5], v[6]), 255>>
        ELSE <<Channel(v[1], v[2]), Channel(v[3], v[4]), Channel(v[5], v[6]),
               Channel(v[7], v[8])>>

C5_ParseHexTotal ==
    hexResult # <<>> =>
        /\ hexResult.ok
        /\ hexResult.val = IF IsHexColour(hexValue) THEN ColourOf(hexValue) ELSE hexDefault

-----------------------------------------------------------------------------
(* C6.  As stated: when use_logo is set and the logo cannot be decoded (bad *)
(* encoding or not an image) the request does not fail: a raster is         *)
(* returned, the one the same request gives with use_logo cleared.          *)
Undecodable == req.logo_base64.kind \in {"not_base64", "not_image"}

\* This call is the call before it with use_logo cleared, at the same reading
\* of the clock unless the request has a text
SameButLogo ==
    /\ calls = 2
    /\ prev.req.use_logo
    /\ req = [prev.req EXCEPT !.use_logo = FALSE]
    /\ (req.text \notin {None, ""} \/ clock = prev.clock)

C6_BadLogoIgnored_AsStated ==
    /\ (pc = "responded" /\ calls = 1 /\ req.use_logo /\ Undecodable
            /\ Quotient >= 1) => response.status = 200
    /\ (pc = "responded" /\ SameButLogo /\ Undecodable) => response = prev.response

(* C6.  Amended: when use_logo is set and the logo is valid base64 that     *)
(* does not decode to an image, the logo's failure is not reported: the     *)
(* response, status and raster, is the one the same request gives with      *)
(* use_logo cleared.  A logo that is not valid base64 is refused by the     *)
(* request's validation with status 422 and nothing is rendered.            *)
C6_BadLogoIgnored ==
    /\ (pc = "responded" /\ req.logo_base64.kind = "not_base64") =>
        (response.status = 422 /\ response.png = <<>> /\ drawn = <<>>)
    /\ (pc = "responded" /\ calls = 1 /\ req.use_logo
            /\ req.logo_base64.kind = "not_image" /\ Quotient >= 1) =>
        (response.status = 200 /\ response.error = "")
    /\ (pc = "responded" /\ SameButLogo /\ req.logo_base64.kind = "not_image") =>
        response = prev.response

\* A raster was returned with the logo that is no image asked for, and the
\* request without the logo gave the same raster
C6_Witness ==
    /\ Answered(200)
    /\ SameButLogo
    /\ req.logo_base64.kind = "not_image"
    /\ prev.response.status = 200
    /\ response.png = prev.response.png

-----------------------------------------------------------------------------
(* C7.  As stated: two renders of the same request, the request without a  *)
(* text included, give the same raster, and a render reads nothing but its  *)
(* request: the matrix it draws is the same too.                            *)
Repeated == calls = 2 /\ pc = "responded" /\ req = prev.req

C7_Deterministic_AsStated ==
    Repeated => (m = prev.m /\ response = prev.response)

(* C7.  Amended: two renders of the same request that draw the same matrix  *)
(* give the same raster.  A render reads nothing but its request and, when  *)
(* the request's text is absent or empty, the clock, whose reading it       *)
(* encodes: two renders of a request are the same when the text is present  *)
(* or the clock reads the same.                                             *)
C7_Deterministic ==
    Repeated =>
        /\ m = prev.m => response = prev.response
        /\ (req.text \notin {None, ""} \/ clock = prev.clock) =>
            (m = prev.m /\ response = prev.response)

\* A request with a text, rendered twice at different readings of the clock
C7_Witness ==
    /\ Repeated
    /\ Answered(200)
    /\ req.text = "Hello"
    /\ clock > prev.clock
    /\ response.png = prev.response.png

-----------------------------------------------------------------------------
(* C10.  As stated: with dot_style, for every module size of at least 1 and *)
(* every dot_margin in [0, 0.49], the dot's radius is                       *)
(* round(S * (0.5 - dot_margin)), is never zero and at most half the module *)
(* size, and the dot, centred at the pixel centre of its cell, stays inside *)
(* the cell.                                                                *)
Scaled == S * (Den \div 2 - req.dot_margin)     \* Den * S * (0.5 - dot_margin)

CellX0 == probe.cell[1]
CellY0 == probe.cell[2]

Centred ==
    probe.box = <<CellX0 + S \div 2 - probe.r_px, CellY0 + S \div 2 - probe.r_px,
                  CellX0 + S \div 2 + probe.r_px, CellY0 + S \div 2 + probe.r_px>>

C10_DotRadius_AsStated ==
    probe # <<>> =>
        /\ probe.r_px = Round(Scaled, Den)
        /\ probe.r_px >= 1
        /\ 2 * probe.r_px <= S
        /\ Centred
        /\ CellX0 <= probe.box[1] /\ probe.box[3] <= CellX0 + S - 1
        /\ CellY0 <= probe.box[2] /\ probe.box[4] <= CellY0 + S - 1

(* C10.  Amended: the dot's radius is floor(S * (0.5 - dot_margin)), the    *)
(* product truncated and not rounded; it is at most half the module size    *)
(* and is zero exactly when S * (0.5 - dot_margin) < 1.  The dot is centred *)
(* at pixel (x0 + floor(S / 2), y0 + floor(S / 2)) of its cell and its box  *)
(* lies within [x0, x0 + S] on both axes: it reaches one pixel beyond the   *)
(* cell exactly when S is even and the radius is S / 2.                     *)
C10_DotRadius ==
    probe # <<>> =>
        /\ Den * probe.r_px <= Scaled /\ Scaled < Den * (probe.r_px + 1)
        /\ probe.r_px >= 0
        /\ probe.r_px = 0 <=> Scaled < Den
        /\ 2 * probe.r_px <= S
        /\ Centred
        /\ CellX0 <= probe.box[1] /\ probe.box[3] <= CellX0 + S
        /\ CellY0 <= probe.box[2] /\ probe.box[4] <= CellY0 + S
        /\ probe.box[3] = CellX0 + S <=> (S % 2 = 0 /\ 2 * probe.r_px = S)

\* A module of 5 pixels whose dot has radius zero
C10_Witness ==
    /\ probe # <<>>
    /\ S = 5
    /\ req.dot_margin = DotMarginMax
    /\ probe.r_px = 0

-----------------------------------------------------------------------------
(* C11.  For N >= 21, a quiet zone B in 1..8 and a canvas of SIZE pixels    *)
(* with module size S = floor(SIZE / (N + 2B)) >= 1: render_px is           *)
(* (N + 2B) * S and offset is floor((SIZE - render_px) / 2), so that        *)
(* 0 <= offset, offset + render_px <= SIZE, SIZE - render_px < N + 2B and   *)
(* the margins on the two sides of the symbol differ by at most one pixel;  *)
(* and the rectangle of a block within rows and columns -B..N+B has         *)
(* x0 = offset + (B + col) * S, y0 = offset + (B + row) * S, side w * S,    *)
(* and lies within [offset, offset + render_px] on both axes.               *)
GivenSide == Len(m)
GivenQuiet == req.quiet_zone_modules
GivenTotal == GivenSide + 2 * GivenQuiet

MarginBefore == offset
MarginAfter == SIZE - render_px - offset

BlockWithinSymbol ==
    /\ 0 - GivenQuiet <= probe.r0 /\ probe.r0 + probe.w <= GivenSide + GivenQuiet
    /\ 0 - GivenQuiet <= probe.c0 /\ probe.c0 + probe.w <= GivenSide + GivenQuiet

C11_GeometryAndBlocks ==
    /\ pc = "canvas" =>
        /\ SIZE = req.pixel_size /\ N = GivenSide /\ B = GivenQuiet
        /\ S >= 1
        /\ S * GivenTotal <= SIZE /\ SIZE < (S + 1) * GivenTotal
        /\ render_px = GivenTotal * S
        /\ 2 * offset <= SIZE - render_px /\ SIZE - render_px < 2 * offset + 2
        /\ 0 <= offset
        /\ offset + render_px <= SIZE
        /\ SIZE - render_px < GivenTotal
        /\ MarginAfter - MarginBefore \in {0, 1}
    /\ (probe # <<>> /\ BlockWithinSymbol) =>
        /\ probe.rect[1] = offset + (GivenQuiet + probe.c0) * S
        /\ probe.rect[2] = offset + (GivenQuiet + probe.r0) * S
        /\ probe.rect[3] - probe.rect[1] = probe.w * S
        /\ probe.rect[4] - probe.rect[2] = probe.w * S
        /\ offset <= probe.rect[1] /\ probe.rect[3] <= offset + render_px
        /\ offset <= probe.rect[2] /\ probe.rect[4] <= offset + render_px

\* The top-right separator block on a canvas whose margins differ by a pixel
C11_Witness ==
    /\ probe # <<>>
    /\ probe.r0 = 0 - 1 /\ probe.c0 = N - 8 /\ probe.w = 9
    /\ BlockWithinSymbol
    /\ S >= 2
    /\ MarginAfter = MarginBefore + 1
    /\ probe.rect[3] = offset + render_px - (B - 1) * S

-----------------------------------------------------------------------------
(* C12.  For every request the request model accepts (pixel_size 1080,      *)
(* quiet_zone_modules in 1..8) and every symbol side N in {21, 25, ...,     *)
(* 177}, the module size is at least 5 pixels, so draw_qr never raises its  *)
(* insufficient-canvas error for a request that came through /qr.           *)
C12_ModuleSizeAtLeast5 ==
    /\ req.pixel_size \div (Len(m) + 2 * req.quiet_zone_modules) >= 5
    /\ pc # "module_size" =>
        /\ S >= 5
        /\ S = req.pixel_size \div (Len(m) + 2 * req.quiet_zone_modules)
        /\ pc = "canvas"
        /\ error # TooSmall

\* The largest symbol with the widest quiet zone: modules of 5 pixels
C12_Witness ==
    /\ pc = "canvas"
    /\ Len(m) = 177
    /\ req.quiet_zone_modules = 8
    /\ req.pixel_size = 1080
    /\ S = 5

====
